---- MODULE Spec2Model ----
(***************************************************************************)
(* Voice-conversation coordination of script.js: the four flags            *)
(* isRecording, isSpeaking, autoSpeak, continuousMode, the handlers that   *)
(* read and write them, the timers they set, and the two browser           *)
(* capabilities (SpeechRecognition, speechSynthesis) they drive.           *)
(*                                                                         *)
(* Every handler of the script is an operator from a state record to a     *)
(* state record, named as in the source; an action applies one handler to  *)
(* the current state.  Everything runs on one event loop, so a handler     *)
(* (with every function it calls) is one atomic step.                      *)
(*                                                                         *)
(* The session state (sessionId, patientData) and the three fetches that   *)
(* write it (/start-session, /chat, /load-session) are modelled too; the   *)
(* backend behind them is not part of script.js and is modelled from the   *)
(* interface the specification gives (BackendSession, PatientOf).          *)
(*                                                                         *)
(* Inputs considered: the user uses the two voice buttons once the page    *)
(* has loaded, that is after window.onload has run initSpeechRecognition() *)
(* (line 285); speechSynthesis is present in the runtime.                  *)
(*                                                                         *)
(* Not modelled: CSS classes, the loading indicator, the summary / PDF /   *)
(* history dialogs (display only, they read no flag), and notifications    *)
(* other than the one of initSpeechRecognition.                            *)
(***************************************************************************)
EXTENDS Integers, Sequences, FiniteSets

VARIABLES
    \* ---- script.js globals and DOM fields
    sessionId,        \* line 3
    patientData,      \* line 4: named by the session whose data it is
    recognition,      \* line 8: "null" or "object"
    loaded,           \* window.onload has run to its end (lines 283-292)
    isRecording,      \* line 9
    isSpeaking,       \* line 12
    autoSpeak,        \* line 10
    continuousMode,   \* line 13
    currentUtterance, \* line 11: text of the utterance object last built
    messageInput,     \* value of the #messageInput field
    doctorMsgs,       \* texts of the doctor messages shown (each has a speaker icon)
    \* ---- event loop: timers set by setTimeout and fetches in flight
    timers,           \* pending setTimeout timers, in the order they were set;
                      \* each [kind, ms] and, as history, the age of the listener
                      \* session that set it and the transcript it was set for
    inflight,         \* /chat requests awaiting their reply: the body of each
                      \* (lines 349-352) and, as history, whether the 500 ms
                      \* send timer or the user made the call
    startPending,     \* /start-session requests awaiting their reply
    \* ---- browser capabilities
    rec,              \* SpeechRecognition session state
    synthQueue,       \* speechSynthesis utterance queue (texts), head first
    synthStarted,     \* the head utterance has had its start event
    cancelledStarted, \* cancelled while spoken: end/error event still to deliver
    cancelledQueued,  \* cancelled before spoken: error event still to deliver
    \* ---- the text cleaning of speakText, character by character (elsewhere a
    \* text is a token)
    rawText,          \* line 146: a text passed to speakText, as characters
    cleanedText,      \* line 163: cleanText, once lines 163-167 have run
    \* ---- the inputs of this run (never change)
    inputs,           \* [typed, outcomes, replies, ids, named, supported,
                      \* observe]: texts the user types, outcomes of a fetch,
                      \* texts and session ids the backend answers with,
                      \* sessions that have patient data, whether the runtime has
                      \* SpeechRecognition, and which of the history below is
                      \* recorded: handler names, "calls", "session", "restarts",
                      \* "send", "reported", "muted"
    \* ---- history of the running listener session (read by no handler)
    sessErr,          \* error delivered to the session that is ending
    sessErrCont,      \* continuousMode when that error was delivered
    sessTimers,       \* restart timers the session's handlers have set so far
    startsBy,         \* age -> a pending restart timer of that session has a
                      \* sibling that called recognition.start()
    \* ---- observation of the last step (history only, read by no handler)
    ev,               \* the handler that ran, if it is observed or issued a call
    calls,            \* capability start requests it issued (and whether
                      \* recognition.start() threw), if observed
    shown,            \* what it did to #voiceStatus ("info", "error", "hide",
                      \* "none"), if it is observed
    sessDone,         \* recognition.onend: summary of the session that ended
    again,            \* its recognition.start() was the second one made by the
                      \* timers of one listener session
    lastSend,         \* 500 ms send timer: the transcript it was set for, what it sent
    step,             \* [notified, caught, said, spoken, request, before]:
                      \* unsupported-capability notifications it showed,
                      \* whether a catch branch ran, texts it passed to
                      \* speakText, what a speak timer submitted and for which
                      \* call, the session_id of the /chat request whose reply
                      \* it handles and sessionId on its entry, if it is observed
    \* ---- history of the run (read by no handler)
    reported,         \* unsupported-capability notifications shown so far by the
                      \* two voice toggles (counted up to 2)
    muted             \* toggleAutoSpeak has turned auto-speak off and speakText
                      \* has not been called since

vars == <<sessionId, patientData, recognition, loaded, isRecording, isSpeaking, autoSpeak, continuousMode, currentUtterance,
          messageInput, doctorMsgs, timers, inflight,
          startPending, rec, synthQueue, synthStarted, cancelledStarted,
          cancelledQueued, rawText, cleanedText, inputs, sessErr, sessErrCont, sessTimers, startsBy,
          ev, calls, shown, sessDone, again, lastSend, step, reported, muted>>

---------------------------------------------------------------------------
\* Bounds of the model.
MaxTimers == 2     \* pending timers
MaxQueue == 2      \* utterances in the speechSynthesis queue
MaxInflight == 1   \* /chat requests in flight
MaxStart == 1      \* /start-session requests in flight
MaxCancelled == 1  \* undelivered events of cancelled utterances
MaxAge == 2        \* listener sessions told apart by age; older ones are merged
MaxText == 5       \* characters of a text that is cleaned

\* Inputs.
Transcripts == {<<"a">>}                 \* final transcripts of the listener
Replies == {"r1"}                        \* texts of backend replies
ErrorReply == "errText"                  \* the fallback text of line 366
RecErrors == {"no-speech", "aborted", "network"}      \* SpeechRecognitionErrorEvent.error
UttErrors == {"synthesis-failed"}                     \* SpeechSynthesisErrorEvent.error
NoText == "null"
NoSend == [expected |-> <<>>, sent |-> <<>>]
NoSess == [ended |-> FALSE, err |-> "none", cont |-> FALSE, timers |-> 0]
NoStep == [notified |-> 0, caught |-> FALSE, said |-> <<>>, spoken |-> <<>>,
           request |-> "none", before |-> "none"]
Null == "null"                           \* sessionId = null (line 3)
Undefined == "undefined"                 \* a field the reply's body does not have
Empty == "empty"                         \* patientData = {} (line 4)
Outcomes == {"ok", "rejected", "errorBody"}   \* of a fetch and its response.json()

\* The delays of the script's timers, in ms.
SendDelay == 500
HideDelay == 2000
RecErrDelay == 1000
RecEndDelay == 500
UttEndDelay == 800
UttErrDelay == 1000
SpeakDelay == 100
Ages == 0..MaxAge
NoAge == 0 - 1

---------------------------------------------------------------------------
\* The state as one record, so that handlers compose as functions.
Cur ==
    [sessionId |-> sessionId, patientData |-> patientData,
     recognition |-> recognition, loaded |-> loaded, supported |-> inputs.supported,
     isRecording |-> isRecording, isSpeaking |-> isSpeaking, autoSpeak |-> autoSpeak,
     continuousMode |-> continuousMode, currentUtterance |-> currentUtterance,
     messageInput |-> messageInput, doctorMsgs |-> doctorMsgs, timers |-> timers,
     inflight |-> inflight,
     startPending |-> startPending, rec |-> rec, synthQueue |-> synthQueue,
     synthStarted |-> synthStarted, cancelledStarted |-> cancelledStarted,
     cancelledQueued |-> cancelledQueued,
     sessErr |-> sessErr, sessErrCont |-> sessErrCont, sessTimers |-> sessTimers,
     startsBy |-> startsBy, by |-> NoAge, caller |-> "user",
     observe |-> inputs.observe,
     calls |-> {}, shown |-> "none", sessDone |-> NoSess, again |-> FALSE,
     lastSend |-> NoSend, step |-> NoStep, reported |-> reported, muted |-> muted]

Fits(r) ==
    /\ Len(r.timers) <= MaxTimers
    /\ Len(r.synthQueue) <= MaxQueue
    /\ Len(r.inflight) <= MaxInflight
    /\ r.startPending <= MaxStart
    /\ r.cancelledStarted + r.cancelledQueued <= MaxCancelled

\* startsBy[a] is kept only while a restart timer of that session is pending.
Kept(r) ==
    [a \in Ages |-> r.startsBy[a] /\ \E i \in 1..Len(r.timers) : r.timers[i].age = a]

Apply(name, r) ==
    /\ Fits(r)
    /\ sessionId' = r.sessionId
    /\ patientData' = r.patientData
    /\ recognition' = r.recognition
    /\ loaded' = r.loaded
    /\ isRecording' = r.isRecording
    /\ isSpeaking' = r.isSpeaking
    /\ autoSpeak' = r.autoSpeak
    /\ continuousMode' = r.continuousMode
    /\ currentUtterance' = r.currentUtterance
    /\ messageInput' = r.messageInput
    /\ doctorMsgs' = r.doctorMsgs
    /\ timers' = r.timers
    /\ inflight' = r.inflight
    /\ startPending' = r.startPending
    /\ rec' = r.rec
    /\ synthQueue' = r.synthQueue
    /\ synthStarted' = r.synthStarted
    /\ cancelledStarted' = r.cancelledStarted
    /\ cancelledQueued' = r.cancelledQueued
    /\ UNCHANGED <<rawText, cleanedText>>
    /\ inputs' = inputs
    /\ sessErr' = IF "session" \in inputs.observe THEN r.sessErr ELSE "none"
    /\ sessErrCont' = ("session" \in inputs.observe /\ r.sessErrCont)
    /\ sessTimers' = IF "session" \in inputs.observe THEN r.sessTimers ELSE 0
    /\ startsBy' = IF "restarts" \in inputs.observe
                   THEN Kept(r) ELSE [a \in Ages |-> FALSE]
    /\ ev' = IF name \in inputs.observe \/ ("calls" \in inputs.observe /\ r.calls # {})
             THEN name ELSE "none"
    /\ calls' = IF "calls" \in inputs.observe \/ name \in inputs.observe
                THEN r.calls ELSE {}
    /\ shown' = IF name \in inputs.observe THEN r.shown ELSE "none"
    /\ sessDone' = IF "session" \in inputs.observe THEN r.sessDone ELSE NoSess
    /\ again' = ("restarts" \in inputs.observe /\ r.again)
    /\ lastSend' = IF "send" \in inputs.observe THEN r.lastSend ELSE NoSend
    /\ step' = IF name \in inputs.observe THEN r.step ELSE NoStep
    /\ reported' = IF "reported" \in inputs.observe THEN r.reported ELSE 0
    /\ muted' = ("muted" \in inputs.observe /\ r.muted)

Min(a, b) == IF a < b THEN a ELSE b

---------------------------------------------------------------------------
\* setTimeout
Timer(kind, ms) == [kind |-> kind, ms |-> ms, age |-> NoAge, expected |-> <<>>]

setTimeout(s, timer) == [s EXCEPT !.timers = Append(@, timer)]

\* A restart timer set by a handler of the running listener session.
setRecTimeout(s, timer) ==
    [s EXCEPT !.timers = Append(@, IF "restarts" \in s.observe
                                   THEN [timer EXCEPT !.age = 0] ELSE timer),
              !.sessTimers = Min(@ + 1, 2)]

\* The timers left when timer i has fired.
Without(seq, i) == SubSeq(seq, 1, i - 1) \o SubSeq(seq, i + 1, Len(seq))

\* Timer i may fire now: no timer set before it is due at or before it (a
\* timer set earlier with a delay no longer fires first).
Due(i) == \A j \in 1..(i - 1) : timers[j].ms > timers[i].ms

---------------------------------------------------------------------------
\* Browser: SpeechRecognition.  One-shot sessions (continuous = false):
\*   idle -start()-> starting -onstart-> listening -stop()-> stopping
\*   listening/stopping -onresult-> ending, starting/listening/stopping
\*   -onerror-> ending, listening/stopping/ending -onend-> idle.

\* recognition.start(): throws InvalidStateError (caught at line 104) unless idle.
\* A new session makes every earlier session one older.
recognitionStart(s) ==
    LET timed == s.by # NoAge /\ s.by < MaxAge
        c == [s EXCEPT !.calls = @ \cup {"recognition.start"},
                       !.again = timed /\ s.startsBy[s.by],
                       !.startsBy = IF timed THEN [@ EXCEPT ![s.by] = TRUE] ELSE @]
    IN  IF s.rec # "idle" THEN [c EXCEPT !.calls = @ \cup {"InvalidStateError"}]
        ELSE IF "restarts" \notin s.observe THEN [c EXCEPT !.rec = "starting"]
        ELSE [c EXCEPT
                !.rec = "starting",
                !.startsBy = [a \in Ages |->
                                IF a = 0 THEN FALSE
                                ELSE IF a = MaxAge
                                     THEN c.startsBy[MaxAge] \/ c.startsBy[MaxAge - 1]
                                     ELSE c.startsBy[a - 1]],
                !.timers = [i \in 1..Len(s.timers) |->
                                IF s.timers[i].age = NoAge THEN s.timers[i]
                                ELSE [s.timers[i] EXCEPT !.age = Min(@ + 1, MaxAge)]]]

\* recognition.stop().  It is reached only with isRecording true, which only a
\* callback of the recognition object sets: recognition is not null here.
recognitionStop(s) ==
    IF s.rec = "listening" THEN [s EXCEPT !.rec = "stopping"] ELSE s

\* Browser: speechSynthesis.cancel() empties the queue; each removed utterance
\* is later sent an event (end or error for the one being spoken, error for
\* the ones still queued).
synthCancel(s) ==
    LET n == Len(s.synthQueue)
        spoken == IF n > 0 /\ s.synthStarted THEN 1 ELSE 0
    IN  [s EXCEPT !.synthQueue = <<>>, !.synthStarted = FALSE,
                  !.cancelledStarted = @ + spoken,
                  !.cancelledQueued = @ + (n - spoken)]

\* Browser: speechSynthesis.speak(u) appends u to the queue.
synthSpeak(s, u) ==
    [s EXCEPT !.synthQueue = Append(@, u), !.calls = @ \cup {"speechSynthesis.speak"}]

---------------------------------------------------------------------------
\* String.prototype.trim on a sequence of characters.
RECURSIVE TrimLeft(_)
TrimLeft(str) ==
    IF str # <<>> /\ Head(str) = " " THEN TrimLeft(Tail(str)) ELSE str

RECURSIVE TrimRight(_)
TrimRight(str) ==
    IF str # <<>> /\ str[Len(str)] = " "
    THEN TrimRight(SubSeq(str, 1, Len(str) - 1))
    ELSE str

Trim(str) == TrimRight(TrimLeft(str))

---------------------------------------------------------------------------
\* The text cleaning of speakText (lines 163-167).  A character is a UTF-16
\* code unit, except that an emoji outside the BMP stands as one character;
\* "VS16" is U+FE0F, "bar" is U+2501.

\* The alternatives of the regular expression of line 164, in its order.
Symbols ==
    << <<"stethoscope">>, <<"bulb">>, <<"pill">>, <<"salad">>, <<"warning", "VS16">>,
       <<"warning">>, <<"calendar">>, <<"dart">>, <<"chart">>, <<"shield", "VS16">>,
       <<"runner">>, <<"bust">> >>

IsPrefix(p, str) == Len(p) <= Len(str) /\ SubSeq(str, 1, Len(p)) = p

\* The length of the match of line 164 at the start of str: that of the first
\* alternative that matches, 0 if none does.
MatchLen(str) ==
    LET hits == {k \in 1..Len(Symbols) : IsPrefix(Symbols[k], str)}
    IN  IF hits = {} THEN 0
        ELSE Len(Symbols[CHOOSE k \in hits : \A other \in hits : k <= other])

\* str.replace(/.../g, ''): matches are found left to right, each search
\* resuming after the previous match, in the text as it was passed.
RECURSIVE RemoveSymbols(_)
RemoveSymbols(str) ==
    IF str = <<>> THEN <<>>
    ELSE IF MatchLen(str) > 0
         THEN RemoveSymbols(SubSeq(str, MatchLen(str) + 1, Len(str)))
         ELSE <<Head(str)>> \o RemoveSymbols(Tail(str))

\* .replace(/\u2501+/g, '')
RemoveBars(str) == SelectSeq(str, LAMBDA c : c # "bar")

\* .replace(/\*\*/g, '')
RECURSIVE RemoveStars(_)
RemoveStars(str) ==
    IF str = <<>> THEN <<>>
    ELSE IF IsPrefix(<<"*", "*">>, str) THEN RemoveStars(SubSeq(str, 3, Len(str)))
    ELSE <<Head(str)>> \o RemoveStars(Tail(str))

\* The length of the run of newlines at the start of str.
RECURSIVE NewlineRun(_)
NewlineRun(str) ==
    IF str # <<>> /\ Head(str) = "\n" THEN 1 + NewlineRun(Tail(str)) ELSE 0

\* .replace(/\n{3,}/g, '\n\n')
RECURSIVE CollapseNewlines(_)
CollapseNewlines(str) ==
    IF str = <<>> THEN <<>>
    ELSE IF NewlineRun(str) >= 3
         THEN <<"\n", "\n">> \o CollapseNewlines(SubSeq(str, NewlineRun(str) + 1, Len(str)))
    ELSE IF NewlineRun(str) > 0
         THEN SubSeq(str, 1, NewlineRun(str))
              \o CollapseNewlines(SubSeq(str, NewlineRun(str) + 1, Len(str)))
    ELSE <<Head(str)>> \o CollapseNewlines(Tail(str))

cleanText(str) == CollapseNewlines(RemoveStars(RemoveBars(RemoveSymbols(str))))

---------------------------------------------------------------------------
\* The backend behind /chat, /start-session and /load-session, from its
\* interface: POST /chat {session_id, message} -> {session_id, response,
\* patient_data} answers for the session the request names, and opens a
\* session when the request names none.
BackendSession(sid, ids) == IF sid \in ids THEN {sid} ELSE ids

\* patient_data of a session: {} until the patient has given data.
PatientOf(sid) == IF sid \in inputs.named THEN sid ELSE Empty

---------------------------------------------------------------------------
\* script.js, function by function.

\* initSpeechRecognition: builds the recognition object and its handlers, or
\* shows the notification of line 86 when the runtime has no SpeechRecognition.
initSpeechRecognition(s) ==
    IF s.supported THEN [s EXCEPT !.recognition = "object"]
    ELSE [s EXCEPT !.step.notified = @ + 1]

stopRecording(s) == [s EXCEPT !.isRecording = FALSE]

updateVoiceStatus(s, type) == [s EXCEPT !.shown = type]

hideVoiceStatus(s) == [s EXCEPT !.shown = "hide"]

stopSpeaking(s) == [synthCancel(s) EXCEPT !.isSpeaking = FALSE]

\* startListening without its isSpeaking check (lines 96-99).
startListening_NoSpeakingCheck(s) ==
    LET s0 == IF s.recognition = Null THEN initSpeechRecognition(s) ELSE s
    IN  IF ~s0.isRecording /\ s0.recognition # Null THEN recognitionStart(s0)
        ELSE s0

\* With recognition still null, recognition.start() of line 103 throws a
\* TypeError, caught at line 104.
startListening(s) ==
    LET s0 == IF s.recognition = Null THEN initSpeechRecognition(s) ELSE s
    IN  IF s0.isSpeaking THEN s0
        ELSE IF ~s0.isRecording /\ s0.recognition # Null THEN recognitionStart(s0)
        ELSE s0

toggleVoiceInput(s) ==
    LET s0 == IF s.recognition = Null THEN initSpeechRecognition(s) ELSE s
    IN  IF s0.isRecording THEN recognitionStop(s0) ELSE startListening(s0)

\* The utterance built by speakText carries the cleaned text; here a text is a
\* token and the utterance is named by the text it was built from.
\* Called with undefined, text.replace of line 163 throws a TypeError: the
\* lines before it have run, nothing after it does.
speakText(s, text) ==
    LET s0 == [s EXCEPT !.step.said = Append(@, text), !.muted = FALSE]
        s1 == IF s0.isSpeaking THEN synthCancel(s0) ELSE s0
        s2 == IF s1.isRecording
              THEN updateVoiceStatus(recognitionStop(s1), "info")
              ELSE s1
        s3 == [s2 EXCEPT !.currentUtterance = text]
    IN  IF text = Undefined THEN s2
        ELSE setTimeout(s3, IF "timer.speak" \in s.observe
                            THEN [Timer("speak", SpeakDelay) EXCEPT !.expected = text]
                            ELSE Timer("speak", SpeakDelay))

\* The 100 ms timer of speakText, set by the call speakText(text): speaks
\* whatever currentUtterance is now.
speakTimer(s, text) ==
    synthSpeak([s EXCEPT !.step.spoken =
                    Append(@, [expected |-> text, submitted |-> s.currentUtterance])],
               s.currentUtterance)

\* currentUtterance.onstart
utteranceOnStart(s) == updateVoiceStatus([s EXCEPT !.isSpeaking = TRUE], "info")

\* currentUtterance.onend without the 800 ms restart of lines 199-206.
utteranceOnEnd_NoRestart(s) ==
    hideVoiceStatus([s EXCEPT !.isSpeaking = FALSE])

\* currentUtterance.onend
utteranceOnEnd(s) ==
    LET s1 == [s EXCEPT !.isSpeaking = FALSE]
    IN  IF s1.continuousMode THEN setTimeout(s1, Timer("uttEnd", UttEndDelay))
        ELSE hideVoiceStatus(s1)

\* The 800 ms timer of currentUtterance.onend
utteranceEndTimer(s) ==
    IF s.continuousMode /\ ~s.isRecording
    THEN startListening(updateVoiceStatus(s, "info"))
    ELSE s

\* currentUtterance.onerror
utteranceOnError(s, error) ==
    LET s1 == [s EXCEPT !.isSpeaking = FALSE]
    IN  IF s1.continuousMode /\ ~s1.isRecording
        THEN setTimeout(s1, Timer("uttErr", UttErrDelay))
        ELSE s1

\* The 1 s timer of currentUtterance.onerror
utteranceErrorTimer(s) == startListening(s)

\* recognition.onstart
recognitionOnStart(s) ==
    LET s1 == updateVoiceStatus([s EXCEPT !.isRecording = TRUE], "info")
    IN  IF s1.isSpeaking THEN stopSpeaking(s1) ELSE s1

\* recognition.onresult
recognitionOnResult(s, transcript) ==
    LET s1 == updateVoiceStatus([s EXCEPT !.messageInput = transcript], "info")
    IN  IF s1.continuousMode
        THEN setTimeout(s1, [Timer("send", SendDelay) EXCEPT !.expected = transcript])
        ELSE setTimeout(s1, Timer("hide", HideDelay))

\* recognition.onerror that restarts after every error kind (the two
\* exclusions of line 64 left out).
recognitionOnError_RestartsAlways(s, error) ==
    LET s1 == IF s.continuousMode /\ (error = "aborted" \/ error = "no-speech")
              THEN s
              ELSE updateVoiceStatus(s, "error")
        s2 == stopRecording(s1)
    IN  IF s2.continuousMode THEN setRecTimeout(s2, Timer("recErr", RecErrDelay)) ELSE s2

\* recognition.onerror
recognitionOnError(s, error) ==
    LET s1 == IF s.continuousMode /\ (error = "aborted" \/ error = "no-speech")
              THEN s
              ELSE updateVoiceStatus(s, "error")
        s2 == stopRecording(s1)
    IN  IF s2.continuousMode /\ error # "aborted" /\ error # "no-speech"
        THEN setRecTimeout(s2, Timer("recErr", RecErrDelay))
        ELSE s2

\* The 1 s timer of recognition.onerror
recognitionErrorTimer(s) ==
    IF s.continuousMode /\ ~s.isSpeaking THEN startListening(s) ELSE s

\* recognition.onend
recognitionOnEnd(s) ==
    LET s1 == stopRecording(s)
    IN  IF s1.continuousMode /\ ~s1.isSpeaking
        THEN setRecTimeout(s1, Timer("recEnd", RecEndDelay))
        ELSE s1

\* The 500 ms timer of recognition.onend
recognitionEndTimer(s) ==
    IF s.continuousMode THEN startListening(s) ELSE s

toggleAutoSpeak(s) ==
    LET s1 == [s EXCEPT !.autoSpeak = ~@]
    IN  IF s1.autoSpeak THEN s1 ELSE [stopSpeaking(s1) EXCEPT !.muted = TRUE]

\* toggleContinuousMode that does not stop the speaker when turning off
\* (line 279 left out).
toggleContinuousMode_NoStopSpeaking(s) ==
    LET s1 == [s EXCEPT !.continuousMode = ~@]
    IN  IF s1.continuousMode
        THEN startListening(IF ~s1.autoSpeak THEN [s1 EXCEPT !.autoSpeak = TRUE] ELSE s1)
        ELSE IF s1.isRecording THEN recognitionStop(s1) ELSE s1

\* toggleContinuousMode that leaves autoSpeak as it is when turning on
\* (lines 262-268 left out).
toggleContinuousMode_NoAutoSpeak(s) ==
    LET s1 == [s EXCEPT !.continuousMode = ~@]
    IN  IF s1.continuousMode
        THEN startListening(s1)
        ELSE stopSpeaking(IF s1.isRecording THEN recognitionStop(s1) ELSE s1)

toggleContinuousMode(s) ==
    LET s1 == [s EXCEPT !.continuousMode = ~@]
    IN  IF s1.continuousMode
        THEN startListening(IF ~s1.autoSpeak THEN [s1 EXCEPT !.autoSpeak = TRUE] ELSE s1)
        ELSE stopSpeaking(IF s1.isRecording THEN recognitionStop(s1) ELSE s1)

addMessage(s, type, text) ==
    IF type = "doctor" THEN [s EXCEPT !.doctorMsgs = @ \cup {text}] ELSE s

\* The message sendMessage would send: the trimmed field.
MessageOf(s) == Trim(s.messageInput)

\* sendMessage up to its fetch: nothing is sent for an empty message.
sendMessage(s) ==
    IF MessageOf(s) = <<>> THEN s
    ELSE [addMessage(s, "user", MessageOf(s)) EXCEPT
            !.messageInput = <<>>,
            !.inflight = Append(@, [session_id |-> s.sessionId, message |-> MessageOf(s),
                                    caller |-> s.caller])]

\* updateSessionInfo reads patientData.name: a TypeError when patientData is
\* undefined.
updateSessionInfoThrows(s) == s.patientData = Undefined

\* The body of a reply: the parsed JSON, or, for an error response, an object
\* without the expected fields (an error body such as {detail: ...}).
Body(outcome, data) ==
    IF outcome = "ok" THEN data ELSE [f \in DOMAIN data |-> Undefined]

\* sendMessage after its fetch with line 361 reading `if (autoSpeak)`.
chatReply_AutoSpeakOnly(s, outcome, data) ==
    LET failed(r) == addMessage([r EXCEPT !.step.caught = TRUE], "doctor", ErrorReply)
        body == Body(outcome, data)
        s1 == [s EXCEPT !.sessionId = body.session_id,
                        !.patientData = body.patient_data]
        s2 == addMessage(s1, "doctor", body.response)
    IN  IF outcome = "rejected" THEN failed(s)
        ELSE IF updateSessionInfoThrows(s1) THEN failed(s1)
        ELSE IF s2.autoSpeak
        THEN IF body.response = Undefined
             THEN failed(speakText(s2, body.response))
             ELSE speakText(s2, body.response)
        ELSE s2

\* sendMessage after its fetch (lines 355-366): the reply, or the catch branch
\* when fetch or response.json() rejects, or a line of the try block throws.
\* response.ok is not looked at: the body of an error response is used as data.
chatReply(s, outcome, data) ==
    LET failed(r) == addMessage([r EXCEPT !.step.caught = TRUE], "doctor", ErrorReply)
        body == Body(outcome, data)
        s1 == [s EXCEPT !.sessionId = body.session_id,
                        !.patientData = body.patient_data]
        s2 == addMessage(s1, "doctor", body.response)
    IN  IF outcome = "rejected" THEN failed(s)
        ELSE IF updateSessionInfoThrows(s1) THEN failed(s1)
        ELSE IF s2.autoSpeak \/ s2.continuousMode
        THEN IF body.response = Undefined
             THEN failed(speakText(s2, body.response))
             ELSE speakText(s2, body.response)
        ELSE s2

\* startNewSession after its fetch (lines 299-312); its catch branch shows a
\* notification only.
startSessionReply(s, outcome, data) ==
    LET failed(r) == [r EXCEPT !.step.caught = TRUE]
        body == Body(outcome, data)
        s1 == [s EXCEPT !.sessionId = body.session_id]
        s2 == addMessage(s1, "doctor", body.message)
    IN  IF outcome = "rejected" THEN failed(s)
        ELSE IF updateSessionInfoThrows(s1) THEN failed(s1)
        ELSE IF s2.autoSpeak
        THEN IF body.message = Undefined
             THEN failed(speakText(s2, body.message))
             ELSE speakText(s2, body.message)
        ELSE s2

\* loadSession after its fetch (lines 548-573); the request itself (lines
\* 542-546) changes nothing that is modelled.  An error response throws at
\* line 549 before anything is assigned.  The catch branch shows a
\* notification only.
loadSessionReply(s, outcome, data) ==
    LET failed(r) == [r EXCEPT !.step.caught = TRUE]
        body == Body(outcome, data)
        s1 == [stopSpeaking(s) EXCEPT !.doctorMsgs = {},
                                      !.sessionId = body.session_id,
                                      !.patientData = body.patient_data]
    IN  IF outcome # "ok" THEN failed(s)
        ELSE IF updateSessionInfoThrows(s1) THEN failed(s1)
        ELSE [s1 EXCEPT !.doctorMsgs = body.history]

\* restartSession (the user confirms) up to the fetch of startNewSession.
restartSession(s) ==
    LET s1 == IF s.continuousMode THEN toggleContinuousMode(s) ELSE s
    IN  [stopSpeaking(s1) EXCEPT !.doctorMsgs = {}, !.patientData = Empty,
                                 !.startPending = @ + 1]

\* window.onload after its await: initSpeechRecognition() of line 285.
windowOnload(s) == [initSpeechRecognition(s) EXCEPT !.loaded = TRUE]

\* speakerIcon.onclick of a doctor message
speakerIconClick(s, text) ==
    IF s.isSpeaking THEN stopSpeaking(s) ELSE speakText(s, text)

\* The 500 ms timer of recognition.onresult, scheduled for `transcript`.
sendTimer(s, transcript) ==
    LET r == sendMessage([s EXCEPT !.caller = IF "caller" \in s.observe THEN "timer" ELSE @])
    IN  [r EXCEPT !.lastSend =
            [expected |-> transcript,
             sent |-> IF Len(r.inflight) > Len(s.inflight) THEN <<MessageOf(s)>> ELSE <<>>]]

---------------------------------------------------------------------------
\* The page after the script has run and window.onload has called
\* startNewSession(): its fetch is in flight.
Page ==
    /\ sessionId = Null
    /\ patientData = Empty
    /\ recognition = Null
    /\ loaded = FALSE
    /\ isRecording = FALSE
    /\ isSpeaking = FALSE
    /\ autoSpeak = FALSE
    /\ continuousMode = FALSE
    /\ currentUtterance = NoText
    /\ messageInput = <<>>
    /\ doctorMsgs = {}
    /\ timers = <<>>
    /\ inflight = <<>>
    /\ startPending = 1
    /\ rec = "idle"
    /\ synthQueue = <<>>
    /\ synthStarted = FALSE
    /\ cancelledStarted = 0
    /\ cancelledQueued = 0
    /\ sessErr = "none"
    /\ sessErrCont = FALSE
    /\ sessTimers = 0
    /\ startsBy = [a \in Ages |-> FALSE]
    /\ ev = "load"
    /\ calls = {}
    /\ shown = "none"
    /\ sessDone = NoSess
    /\ again = FALSE
    /\ lastSend = NoSend
    /\ step = NoStep
    /\ reported = 0
    /\ muted = FALSE

Loaded ==
    /\ Page
    /\ rawText = <<>>
    /\ cleanedText = <<>>

\* The inputs of the main specification: a runtime with SpeechRecognition, a
\* backend that answers every request, one session.
Usual ==
    [typed |-> {<<"a">>}, outcomes |-> {"ok"}, replies |-> Replies, ids |-> {"s1"},
     named |-> {}, supported |-> TRUE, observe |-> {}]

\* The main specification: the user types what the listener would have
\* transcribed, the backend answers every request; the capability calls of
\* every step and the runs of the two toggles are recorded.
Init ==
    /\ Loaded
    /\ inputs = [Usual EXCEPT
                    !.observe = {"calls", "toggleContinuousMode", "toggleVoiceInput"}]

\* The same program, recording the history of each listener session.
InitSessions ==
    /\ Loaded
    /\ inputs = [Usual EXCEPT !.observe = {"session", "recognition.onerror"}]

\* The same program, recording which session set each restart timer.
InitRestarts ==
    /\ Loaded
    /\ inputs = [Usual EXCEPT !.observe = {"restarts", "timer.recErr"}]

\* The same program, the user typing a text of their own, recording what
\* each 500 ms send timer sends.
InitSend ==
    /\ Loaded
    /\ inputs = [Usual EXCEPT !.typed = {<<" ", "c">>},
                              !.observe = {"send", "recognition.onresult"}]

\* The same program, recording what the handlers of the two replies pass to
\* speakText.
InitReplies ==
    /\ Loaded
    /\ inputs = [Usual EXCEPT !.observe = {"chat.reply", "startSession.reply"}]

\* The same program, the backend answering with two texts, recording what
\* each 100 ms timer of speakText submits to the speaker.
InitSpeak ==
    /\ Loaded
    /\ inputs = [Usual EXCEPT !.replies = {"r1", "r2"}, !.observe = {"timer.speak"}]

\* The same program for the hands-free loop, recording the capability calls
\* of every step and the two handlers that end an utterance.
InitLoop ==
    /\ Loaded
    /\ inputs = [Usual EXCEPT !.observe = {"calls", "utterance.onend", "utterance.onerror"}]

\* The same program, recording the capability calls of every step and which
\* /chat requests the 500 ms send timer made.
InitTurn ==
    /\ Loaded
    /\ inputs = [Usual EXCEPT !.observe = {"calls", "caller"}]

\* The characters of the texts that are cleaned: two plain characters, three
\* emoji of line 164, U+FE0F, U+2501, the asterisk and the newline.
Chars == {"H", " ", "stethoscope", "warning", "shield", "VS16", "bar", "*", "\n"}

Texts == UNION {[1..n -> Chars] : n \in 0..MaxText}

\* speakText is called with any text of at most MaxText characters.
InitClean ==
    /\ Page
    /\ rawText \in Texts
    /\ cleanedText = <<>>
    /\ inputs = Usual

\* The same program in either runtime, with or without SpeechRecognition,
\* recording what the two voice toggles did and whether speakText has been
\* called since auto-speak was last turned off.
InitRuntime ==
    /\ Loaded
    /\ \E supported \in BOOLEAN :
         inputs = [Usual EXCEPT
                     !.supported = supported,
                     !.observe = {"reported", "muted", "toggleVoiceInput",
                                  "toggleContinuousMode"}]

\* A backend with two sessions whose requests may fail; what each reply
\* handler did is recorded.
InitSession ==
    /\ Loaded
    /\ inputs = [Usual EXCEPT
                    !.outcomes = Outcomes, !.ids = {"s1", "s2"}, !.named = {"s1", "s2"},
                    !.observe = {"chat.reply", "startSession.reply", "loadSession.reply"}]

\* The notifications of initSpeechRecognition a voice toggle has shown are
\* added to the count of the run.
Counted(r) == [r EXCEPT !.reported = Min(@ + r.step.notified, 2)]

\* ---- user actions
ToggleVoiceInput ==
    /\ loaded
    /\ \E s \in {Cur} : Apply("toggleVoiceInput", Counted(toggleVoiceInput(s)))

ToggleContinuousMode ==
    /\ loaded
    /\ \E s \in {Cur} : Apply("toggleContinuousMode", Counted(toggleContinuousMode(s)))

ToggleAutoSpeak ==
    \E s \in {Cur} : Apply("toggleAutoSpeak", toggleAutoSpeak(s))

SpeakerIconClick ==
    \E text \in doctorMsgs : Apply("speakerIcon.onclick", speakerIconClick(Cur, text))

SendMessage ==
    \E s \in {Cur} : Apply("sendMessage", sendMessage(s))

RestartSession ==
    \E s \in {Cur} : Apply("restartSession", restartSession(s))

TypeMessage ==
    \E m \in inputs.typed : Apply("type", [Cur EXCEPT !.messageInput = m])

\* ---- listener callbacks
RecOnStart ==
    /\ rec = "starting"
    /\ Apply("recognition.onstart", recognitionOnStart([Cur EXCEPT !.rec = "listening"]))

RecOnResult ==
    /\ rec \in {"listening", "stopping"}
    /\ \E transcript \in Transcripts :
         Apply("recognition.onresult",
               recognitionOnResult([Cur EXCEPT !.rec = "ending"], transcript))

RecOnError ==
    /\ rec \in {"starting", "listening", "stopping"}
    /\ \E error \in RecErrors :
         /\ rec = "starting" => error = "network"
         /\ Apply("recognition.onerror",
                  recognitionOnError([Cur EXCEPT !.rec = "ending", !.sessErr = error,
                                                 !.sessErrCont = continuousMode], error))

RecOnEnd ==
    /\ rec \in {"listening", "stopping", "ending"}
    /\ LET r == recognitionOnEnd([Cur EXCEPT !.rec = "idle"])
       IN  Apply("recognition.onend",
                 [r EXCEPT !.sessDone = [ended |-> TRUE, err |-> r.sessErr,
                                         cont |-> r.sessErrCont, timers |-> r.sessTimers],
                           !.sessErr = "none", !.sessErrCont = FALSE, !.sessTimers = 0])

\* ---- utterance callbacks
UttOnStart ==
    /\ synthQueue # <<>>
    /\ ~synthStarted
    /\ Apply("utterance.onstart", utteranceOnStart([Cur EXCEPT !.synthStarted = TRUE]))

UttOnEnd ==
    /\ synthQueue # <<>>
    /\ synthStarted
    /\ Apply("utterance.onend",
             utteranceOnEnd([Cur EXCEPT !.synthQueue = Tail(@), !.synthStarted = FALSE]))

UttOnError ==
    /\ synthQueue # <<>>
    /\ \E error \in UttErrors :
         Apply("utterance.onerror",
               utteranceOnError([Cur EXCEPT !.synthQueue = Tail(@),
                                            !.synthStarted = FALSE], error))

\* The event of an utterance that cancel() removed while it was spoken: browsers
\* deliver end, or error "interrupted".
CancelledStartedEvent ==
    /\ cancelledStarted > 0
    /\ \/ Apply("utterance.onend", utteranceOnEnd([Cur EXCEPT !.cancelledStarted = @ - 1]))
       \/ Apply("utterance.onerror",
                utteranceOnError([Cur EXCEPT !.cancelledStarted = @ - 1], "interrupted"))

\* The event of an utterance that cancel() removed before it was spoken.
CancelledQueuedEvent ==
    /\ cancelledQueued > 0
    /\ Apply("utterance.onerror",
             utteranceOnError([Cur EXCEPT !.cancelledQueued = @ - 1], "canceled"))

\* ---- timers
Fire(kind, i) == i \in 1..Len(timers) /\ timers[i].kind = kind /\ Due(i)

Fired(i) == [Cur EXCEPT !.timers = Without(@, i), !.by = timers[i].age]

HideTimer ==
    \E i \in 1..MaxTimers :
        /\ Fire("hide", i)
        /\ Apply("timer.hide", hideVoiceStatus(Fired(i)))

SpeakTimer ==
    \E i \in 1..MaxTimers :
        /\ Fire("speak", i)
        /\ Apply("timer.speak", speakTimer(Fired(i), timers[i].expected))

UttEndTimer ==
    \E i \in 1..MaxTimers :
        /\ Fire("uttEnd", i)
        /\ Apply("timer.uttEnd", utteranceEndTimer(Fired(i)))

UttErrTimer ==
    \E i \in 1..MaxTimers :
        /\ Fire("uttErr", i)
        /\ Apply("timer.uttErr", utteranceErrorTimer(Fired(i)))

SendTimer ==
    \E i \in 1..MaxTimers :
        /\ Fire("send", i)
        /\ Apply("timer.send", sendTimer(Fired(i), timers[i].expected))

RecErrTimer ==
    \E i \in 1..MaxTimers :
        /\ Fire("recErr", i)
        /\ Apply("timer.recErr", recognitionErrorTimer(Fired(i)))

RecEndTimer ==
    \E i \in 1..MaxTimers :
        /\ Fire("recEnd", i)
        /\ Apply("timer.recEnd", recognitionEndTimer(Fired(i)))

\* ---- network replies
\* The program as the reply to request i arrives.
Answered(i) ==
    [Cur EXCEPT !.inflight = Without(@, i),
                !.step.request = inflight[i].session_id,
                !.step.before = sessionId]

ChatReply ==
    \E i \in 1..MaxInflight : \E outcome \in inputs.outcomes :
    \E response \in inputs.replies :
        /\ i <= Len(inflight)
        /\ \E sid \in BackendSession(inflight[i].session_id, inputs.ids) :
             Apply("chat.reply",
                   chatReply(Answered(i), outcome,
                             [session_id |-> sid, response |-> response,
                              patient_data |-> PatientOf(sid)]))

\* The reply to /start-session; the one window.onload awaits is followed by
\* the rest of window.onload.
StartSessionReply ==
    /\ startPending > 0
    /\ \E outcome \in inputs.outcomes : \E message \in inputs.replies :
       \E sid \in inputs.ids :
         LET r == startSessionReply([Cur EXCEPT !.startPending = @ - 1], outcome,
                                    [session_id |-> sid, message |-> message])
         IN  Apply("startSession.reply", IF loaded THEN r ELSE windowOnload(r))

\* The reply to a /load-session/{id} request of the user.
LoadSessionReply ==
    \E id \in inputs.ids : \E outcome \in inputs.outcomes :
    \E history \in SUBSET inputs.replies :
        Apply("loadSession.reply",
              loadSessionReply(Cur, outcome,
                               [session_id |-> id, patient_data |-> PatientOf(id),
                                history |-> history]))

Next ==
    \/ ToggleVoiceInput
    \/ ToggleContinuousMode
    \/ ToggleAutoSpeak
    \/ SpeakerIconClick
    \/ SendMessage
    \/ TypeMessage
    \/ RecOnStart
    \/ RecOnResult
    \/ RecOnError
    \/ RecOnEnd
    \/ UttOnStart
    \/ UttOnEnd
    \/ UttOnError
    \/ CancelledStartedEvent
    \/ CancelledQueuedEvent
    \/ HideTimer
    \/ SpeakTimer
    \/ UttEndTimer
    \/ UttErrTimer
    \/ SendTimer
    \/ RecErrTimer
    \/ RecEndTimer
    \/ ChatReply
    \/ StartSessionReply

\* Lines 163-167 of speakText, run on the text it was passed.
CleanText ==
    /\ ev # "speakText"
    /\ cleanedText' = cleanText(rawText)
    /\ ev' = "speakText"
    /\ UNCHANGED <<sessionId, patientData, recognition, loaded, isRecording,
                   isSpeaking, autoSpeak, continuousMode, currentUtterance,
                   messageInput, doctorMsgs, timers, inflight, startPending, rec,
                   synthQueue, synthStarted, cancelledStarted, cancelledQueued,
                   rawText, inputs, sessErr, sessErrCont, sessTimers, startsBy,
                   calls, shown, sessDone, again, lastSend, step, reported, muted>>

NextClean == CleanText

\* The text chat and its sessions: the user types and sends messages, restarts
\* the session and loads sessions, and uses none of the voice controls
\* (autoSpeak and continuousMode stay false, no speaker icon is clicked), so
\* nothing is spoken and no listener session starts.
NextSession ==
    \/ SendMessage
    \/ TypeMessage
    \/ RestartSession
    \/ ChatReply
    \/ StartSessionReply
    \/ LoadSessionReply

\* The user turns continuous mode on (and never off).
TurnContinuousModeOn == ~continuousMode /\ ToggleContinuousMode

\* What the user does during the hands-free loop: the user speaks (the
\* listener's results), uses the two voice buttons and clicks speaker icons,
\* and types nothing.
UserAct ==
    \/ ToggleVoiceInput
    \/ TurnContinuousModeOn
    \/ SpeakerIconClick

\* What the event loop does: the browser delivers an event of a capability,
\* a timer fires or a reply arrives.
SystemStep ==
    \/ RecOnStart
    \/ RecOnResult
    \/ RecOnError
    \/ RecOnEnd
    \/ UttOnStart
    \/ UttOnEnd
    \/ UttOnError
    \/ CancelledStartedEvent
    \/ HideTimer
    \/ SpeakTimer
    \/ UttEndTimer
    \/ UttErrTimer
    \/ SendTimer
    \/ RecErrTimer
    \/ RecEndTimer
    \/ ChatReply
    \/ StartSessionReply

\* The hands-free loop: continuous mode, once on, stays on.  With these user
\* actions cancel() is called with at most one utterance in the queue within
\* MaxCancelled, so no queued utterance is cancelled.
NextLoop ==
    \/ ToggleVoiceInput
    \/ TurnContinuousModeOn
    \/ SpeakerIconClick
    \/ RecOnStart
    \/ RecOnResult
    \/ RecOnError
    \/ RecOnEnd
    \/ UttOnStart
    \/ UttOnEnd
    \/ UttOnError
    \/ CancelledStartedEvent
    \/ HideTimer
    \/ SpeakTimer
    \/ UttEndTimer
    \/ UttErrTimer
    \/ SendTimer
    \/ RecErrTimer
    \/ RecEndTimer
    \/ ChatReply
    \/ StartSessionReply

Spec == Init /\ [][Next]_vars

SpecSessions == InitSessions /\ [][Next]_vars

SpecRestarts == InitRestarts /\ [][Next]_vars

SpecSend == InitSend /\ [][Next]_vars

SpecTurn == InitTurn /\ [][Next]_vars

SpecSpeak == InitSpeak /\ [][Next]_vars

SpecReplies == InitReplies /\ [][Next]_vars

SpecRuntime == InitRuntime /\ [][Next]_vars

SpecClean == InitClean /\ [][NextClean]_vars

SpecSession == InitSession /\ [][NextSession]_vars

\* The event loop keeps running: while an event, a timer or a reply can be
\* delivered, one eventually is.  Nothing is assumed of the user.
SpecLoop == InitLoop /\ [][NextLoop]_vars /\ WF_vars(SystemStep)

---------------------------------------------------------------------------
RestartTimers == {"timer.recErr", "timer.recEnd", "timer.uttEnd", "timer.uttErr"}

\* C1: in every reachable state isRecording and isSpeaking are not both true.
C1_NeverBothActive == ~(isRecording /\ isSpeaking)

\* Both flags true with the listener capturing and no stop requested.
C1_SpeakingWhileListening == isRecording /\ isSpeaking /\ rec = "listening"

\* C2: whenever a step calls recognition.start() isSpeaking is false, and
\* whenever the 100 ms timer of speakText calls speechSynthesis.speak()
\* isRecording is false.
C2_OppositeIdleAtStart ==
    /\ "recognition.start" \in calls => ~isSpeaking
    /\ "speechSynthesis.speak" \in calls => ~isRecording

\* speak() is called while the listener is capturing and has not been stopped.
C2_SpeakWhileListening ==
    "speechSynthesis.speak" \in calls /\ isRecording /\ rec = "listening"

\* C3: a restart timer (of recognition.onend, recognition.onerror,
\* utterance.onend or utterance.onerror) calls recognition.start() only when
\* continuousMode is true and isSpeaking is false as it fires.
C3_RestartTimersRecheck ==
    (ev \in RestartTimers /\ "recognition.start" \in calls)
        => (continuousMode /\ ~isSpeaking)

\* A restart timer starts a listener session after continuous mode was
\* turned off.
C3_StaleTimerStartsSession ==
    ev \in RestartTimers /\ calls = {"recognition.start"} /\ ~continuousMode

\* C5: the speaker capability never holds two utterances (queued or playing)
\* together.
C5_AtMostOneUtterance == Len(synthQueue) <= 1

\* The state right after toggleContinuousMode() has turned continuous mode off.
TurnedOff == ev = "toggleContinuousMode" /\ ~continuousMode

\* C4 as claimed: right after toggleContinuousMode() has turned continuous
\* mode off, before any other callback or timer runs, isSpeaking and
\* isRecording are both false.
C4_BothIdleAfterTurnOff == TurnedOff => (~isSpeaking /\ ~isRecording)

\* C4 amended: right after toggleContinuousMode() has turned continuous mode
\* off, isSpeaking is false and the speaker's queue is empty; isRecording is
\* still true only while the listener, asked to stop, has not yet delivered
\* its onend.
C4_SpeakerIdleListenerStopping ==
    TurnedOff =>
        /\ ~isSpeaking
        /\ synthQueue = <<>>
        /\ isRecording => rec \in {"stopping", "ending"}

C4_TurnedOffWhileListening == TurnedOff /\ isRecording /\ rec = "stopping"

NoSpeechHandled == ev = "recognition.onerror" /\ sessErr = "no-speech"

\* The state right after the recognition.onend of a session that was
\* delivered "no-speech" while continuousMode was true.
NoSpeechSessionEnded == sessDone.ended /\ sessDone.err = "no-speech" /\ sessDone.cont

C7_OneStartPerSession == ~again

\* The 1 s timer of recognition.onerror starts a second session after the
\* 500 ms timer of the same session's onend had called recognition.start().
C7_SecondSessionStarted ==
    again /\ ev = "timer.recErr" /\ calls = {"recognition.start"}

SendsPending == Cardinality({i \in 1..Len(timers) : timers[i].kind = "send"})

\* C8: the 500 ms timer set by recognition.onresult in continuous mode issues
\* exactly one send, whose message is the transcript it was set for; a result
\* delivered while continuousMode is false sets no send timer and leaves the
\* transcript in the message field.
C8_SendsExactlyTranscript ==
    [][/\ lastSend'.expected # <<>> => lastSend'.sent = <<lastSend'.expected>>
       /\ (ev' = "recognition.onresult" /\ continuousMode) =>
              SendsPending' = SendsPending + 1
       /\ (ev' = "recognition.onresult" /\ ~continuousMode) =>
              (SendsPending' = SendsPending /\ messageInput' \in Transcripts)]_vars

\* The send timer set for transcript "a" sends the text the user typed.
C8_SendsTypedText == lastSend.expected = <<"a">> /\ lastSend.sent = << <<"c">> >>

\* C11: when a /chat, /start-session or /load-session call fails (fetch or
\* response.json() rejects, or handling the reply throws), sessionId and
\* patientData are what they were before the reply arrived, and a failed /chat
\* call shows the fallback message in place of a reply.
C11_FailedCallKeepsSession ==
    [][step'.caught =>
          /\ sessionId' = sessionId
          /\ patientData' = patientData
          /\ ev' = "chat.reply" => ErrorReply \in doctorMsgs']_vars

\* A /chat reply whose body lacks the expected fields: the fallback message
\* is shown and the session identifier is lost.
C11_SessionLostOnErrorBody ==
    /\ ev = "chat.reply"
    /\ step.caught
    /\ ErrorReply \in doctorMsgs
    /\ sessionId = Undefined
    /\ patientData = Undefined

RestartKinds == {"recErr", "recEnd", "uttEnd", "uttErr"}

RestartPending == \E i \in 1..Len(timers) : timers[i].kind \in RestartKinds

\* C12: in a runtime without SpeechRecognition the unsupported-capability
\* notification is shown at most once over all toggleVoiceInput() and
\* toggleContinuousMode() calls, isRecording is never true and no restart
\* timer is ever pending.
C12_UnsupportedReportedOnce ==
    ~inputs.supported => (reported <= 1 /\ ~isRecording /\ ~RestartPending)

\* A second toggleContinuousMode() call shows the notification again.
C12_ReportedAgain ==
    /\ ~inputs.supported
    /\ ev = "toggleContinuousMode"
    /\ step.notified = 1
    /\ reported = 2

\* str occurs in text as a run of consecutive characters.
Occurs(str, inText) ==
    \E k \in 0..(Len(inText) - Len(str)) : SubSeq(inText, k + 1, k + Len(str)) = str

\* The characters no line of 163-167 ever removes.
Plain(str) == SelectSeq(str, LAMBDA c : c \in {"H", " "})

\* Lines 163-167 have run on rawText.
Cleaned == ev = "speakText"

\* C13: the text speakText hands to the speaker contains none of the symbols
\* of line 164, no U+2501 and no "**", contains no run of three or more
\* newlines, a run of newlines of the text passed being cut to two, and keeps
\* the other characters in their order; "H 🩺 H" becomes "H  H".
C13_CleanTextHasNoSymbols ==
    Cleaned =>
       /\ \A k \in 1..Len(Symbols) : ~Occurs(Symbols[k], cleanedText)
       /\ ~Occurs(<<"bar">>, cleanedText)
       /\ ~Occurs(<<"*", "*">>, cleanedText)
       /\ ~Occurs(<<"\n", "\n", "\n">>, cleanedText)
       /\ Occurs(<<"\n", "\n", "\n">>, rawText) => Occurs(<<"\n", "\n">>, cleanedText)
       /\ Plain(cleanedText) = Plain(rawText)
       /\ rawText = <<"H", " ", "stethoscope", " ", "H">>
             => cleanedText = <<"H", " ", " ", "H">>

\* Removing the stethoscope between a shield and U+FE0F leaves the shield
\* emoji of line 164 in the cleaned text.
C13_ShieldLeftInCleanText ==
    /\ Cleaned
    /\ rawText = <<"shield", "stethoscope", "VS16">>
    /\ cleanedText = <<"shield", "VS16">>

\* C14: once toggleAutoSpeak() has turned auto-speak off, isSpeaking is false
\* and stays false until speakText is next called.
C14_SilentAfterAutoSpeakOff == muted => ~isSpeaking

\* An utterance starts after auto-speak was turned off, with no speakText
\* call since: the 100 ms timer of an earlier speakText call has fired.
C14_SpeaksAfterAutoSpeakOff ==
    muted /\ isSpeaking /\ synthStarted /\ ~autoSpeak /\ ~continuousMode

\* The 500 ms send timer has sent a transcript to /chat and the reply has not
\* arrived.
TranscriptAwaited ==
    \E i \in 1..Len(inflight) :
        inflight[i].caller = "timer" /\ inflight[i].message \in Transcripts

\* C15: in continuous mode recognition.start() is not called between the
\* send of a transcript and the end of its turn; in particular no restart
\* timer calls it while the reply to the transcript is awaited.
C15_NoListeningWhileAwaiting ==
    (continuousMode /\ TranscriptAwaited /\ ev \in RestartTimers)
        => "recognition.start" \notin calls

\* The 500 ms timer of recognition.onend starts a listener session while the
\* reply to the transcript just sent is awaited.
C15_ListensWhileAwaiting ==
    /\ ev = "timer.recEnd"
    /\ calls = {"recognition.start"}
    /\ rec = "starting"
    /\ continuousMode
    /\ TranscriptAwaited

\* What a reply handler passed to speakText: one text of the backend.
SpokenOnce ==
    /\ Len(step'.said) = 1
    /\ step'.said[1] \in inputs.replies

\* C17: a /chat reply received without failure is passed to speakText, once,
\* exactly when autoSpeak or continuousMode is true on its arrival, and the
\* /start-session greeting exactly when autoSpeak is true.
C17_SpokenIffPreference ==
    [][/\ (ev' = "chat.reply" /\ ~step'.caught) =>
             IF autoSpeak \/ continuousMode THEN SpokenOnce ELSE step'.said = <<>>
       /\ (ev' = "startSession.reply" /\ ~step'.caught) =>
             IF autoSpeak THEN SpokenOnce ELSE step'.said = <<>>]_vars

\* A chat reply arrived in continuous mode with auto-speak toggled off, and
\* was passed to speakText.
C17_SpokenWithAutoSpeakOff ==
    /\ ev = "chat.reply"
    /\ ~step.caught
    /\ continuousMode
    /\ ~autoSpeak
    /\ Len(step.said) = 1

\* C18: the utterance a 100 ms timer of speakText submits to
\* speechSynthesis.speak() was built from the text of the speakText call that
\* set the timer.
C18_TimerSpeaksOwnText ==
    ev = "timer.speak" =>
        \A i \in 1..Len(step.spoken) : step.spoken[i].submitted = step.spoken[i].expected

\* The timer of speakText("r1") submits the utterance of a later
\* speakText("r2") call, whose own timer is still pending and will submit it
\* again.
C18_TimerSpeaksLaterText ==
    /\ ev = "timer.speak"
    /\ step.spoken = <<[expected |-> "r1", submitted |-> "r2"]>>
    /\ \E i \in 1..Len(timers) : timers[i].kind = "speak" /\ timers[i].expected = "r2"

\* A /chat reply was handled without failure whose request was sent under
\* one session while another session is the established one.
StaleReply ==
    /\ ev = "chat.reply"
    /\ ~step.caught
    /\ step.request \in inputs.ids
    /\ step.before \in inputs.ids
    /\ step.request # step.before

\* C19: a reply to a /chat request sent under the previous session, arriving
\* after restartSession() or loadSession() has set sessionId, leaves
\* sessionId as it was and does not set patientData to the previous
\* session's data.
C19_StaleReplyKeepsSession ==
    StaleReply =>
        /\ sessionId = step.before
        /\ patientData # PatientOf(step.request)

\* The reply to a request sent under session s1 arrives when s2 is the
\* established session and sets sessionId and patientData back to s1's.
C19_StaleReplyOverwrites ==
    /\ StaleReply
    /\ step.request = "s1"
    /\ step.before = "s2"
    /\ sessionId = "s1"
    /\ patientData = PatientOf("s1")

\* An event, a timer or a reply is outstanding.
Pending ==
    \/ timers # <<>>
    \/ rec # "idle"
    \/ synthQueue # <<>>
    \/ cancelledStarted > 0
    \/ inflight # <<>>
    \/ startPending > 0

\* Something is outstanding and none of it can be delivered within the
\* bounds MaxTimers, MaxQueue, MaxInflight and MaxCancelled: the run has left
\* the part of the program's behaviour that is explored.
Withheld == Pending /\ ~ENABLED SystemStep

SpeakerEnds == {"utterance.onend", "utterance.onerror"}

\* In continuous mode the listener is idle (its session ended or failed, or
\* was not started) or the speaker has just finished or failed.
LoopTurn == continuousMode /\ (rec = "idle" \/ ev \in SpeakerEnds)

\* C16 as stated: while continuous mode is on, whenever the speaker finishes
\* or fails, or the listener has ended or failed, recognition.start() is
\* eventually called again.
C16_LoopRestarts ==
    LoopTurn ~> ("recognition.start" \in calls \/ Withheld)

\* C16, amended: the same, unless the user goes on using the voice buttons and
\* the speaker icons for ever.
C16_LoopRestartsOnceQuiet ==
    ([]<><<UserAct>>_vars) \/ C16_LoopRestarts

\* The 800 ms timer of an utterance that ended starts the next listener
\* session.
C16_Restarted ==
    /\ continuousMode
    /\ ev = "timer.uttEnd"
    /\ calls = {"recognition.start"}
    /\ rec = "starting"

====
